---------------------------- MODULE Spec2Model ----------------------------
(***************************************************************************)
(* Model of feedtui's archived-tweet pipeline                              *)
(* (src/feeds/twitter_archive.rs): the CDX index request, the row filter   *)
(* of fetch_cdx_records, the bounded concurrent enrichment of              *)
(* TwitterArchiveFetcher::fetch and the extraction cascade.                *)
(*                                                                         *)
(* Rust strings are TLA+ strings; a character is a string of length 1.     *)
(* Option<T> is a record: None, or Some(v) with the value in field val.    *)
(***************************************************************************)
EXTENDS Naturals, Sequences, FiniteSets, TLC

None == [some |-> FALSE]
Some(v) == [some |-> TRUE, val |-> v]

(***************************************************************************)
(* String primitives of the Rust standard library, as the code uses them.  *)
(***************************************************************************)

\* Characters that take two bytes in UTF-8 (U+00E9, U+0085, U+00A0); U+1680
\* takes three; every other character of the model is ASCII and takes one.
\* str::len and &s[a..b] count bytes.
TwoByteChars == {"é", "", " "}

CharAt(s, i) == SubSeq(s, i, i)

RECURSIVE ByteLen(_)
ByteLen(s) ==
    IF Len(s) = 0 THEN 0
    ELSE (IF CharAt(s, 1) \in TwoByteChars THEN 2
          ELSE IF CharAt(s, 1) = " " THEN 3
          ELSE 1) + ByteLen(Tail(s))

\* Number of characters of s that lie wholly before byte offset b.
CharsBefore(s, b) ==
    Cardinality({k \in 1..Len(s) : ByteLen(SubSeq(s, 1, k)) <= b})

\* str::is_char_boundary
IsCharBoundary(s, b) ==
    b <= ByteLen(s) /\ ByteLen(SubSeq(s, 1, CharsBefore(s, b))) = b

\* &s[a..b] panics when a > b, b > len, or a or b is not a char boundary.
SlicePanics(s, a, b) ==
    a > b \/ ~IsCharBoundary(s, a) \/ ~IsCharBoundary(s, b)

\* &s[a..b] when it does not panic.
ByteSlice(s, a, b) == SubSeq(s, CharsBefore(s, a) + 1, CharsBefore(s, b))

\* str::starts_with
StartsWith(s, p) == Len(p) <= Len(s) /\ SubSeq(s, 1, Len(p)) = p

\* str::find: the position (1-based) of the first occurrence of p, 0 if none.
Find(s, p) ==
    LET hits == {i \in 1..(Len(s) + 1) :
                    i + Len(p) - 1 <= Len(s) /\ SubSeq(s, i, i + Len(p) - 1) = p}
    IN  IF hits = {} THEN 0 ELSE CHOOSE i \in hits : \A j \in hits : i <= j

\* str::contains
Contains(s, p) == Find(s, p) # 0

\* str::strip_prefix
StripPrefix(s, p) ==
    IF StartsWith(s, p) THEN Some(SubSeq(s, Len(p) + 1, Len(s))) ELSE None

\* s.split(pat).nth(n) for n in {0, 1}: the pieces between successive
\* non-overlapping matches of pat, scanned left to right.
SplitNth(s, pat, n) ==
    LET i == Find(s, pat)
    IN  IF n = 0
        THEN Some(IF i = 0 THEN s ELSE SubSeq(s, 1, i - 1))
        ELSE IF i = 0 THEN None
        ELSE LET rest == SubSeq(s, i + Len(pat), Len(s))
                 j == Find(rest, pat)
             IN  Some(IF j = 0 THEN rest ELSE SubSeq(rest, 1, j - 1))

\* s.split(&[c1, c2, ..][..]).next(): the text before the first character of
\* s that belongs to chars (all of s when there is none).
SplitCharsFirst(s, chars) ==
    LET hits == {i \in 1..Len(s) : CharAt(s, i) \in chars}
    IN  IF hits = {} THEN s
        ELSE SubSeq(s, 1, (CHOOSE i \in hits : \A j \in hits : i <= j) - 1)

\* char::is_ascii_digit
IsAsciiDigit(c) == c \in {"0", "1", "2", "3", "4", "5", "6", "7", "8", "9"}

\* Option::unwrap_or
UnwrapOr(o, d) == IF o.some THEN o.val ELSE d


(***************************************************************************)
(* The query of the index request (lines 32-42).                           *)
(***************************************************************************)

\* str::trim_end_matches(c): every trailing c is removed.
RECURSIVE trim_end_matches(_, _)
trim_end_matches(s, c) ==
    IF Len(s) > 0 /\ CharAt(s, Len(s)) = c
    THEN trim_end_matches(SubSeq(s, 1, Len(s) - 1), c) ELSE s

\* The local `query` of fetch_cdx_records.
build_query(archive_query) ==
    IF Contains(archive_query, "/status") THEN archive_query
    ELSE trim_end_matches(trim_end_matches(archive_query, "*"), "/") \o "/status/*"

(***************************************************************************)
(* The row filter and the derived fields of fetch_cdx_records.             *)
(* A row of the index response is a sequence of strings:                   *)
(* <<timestamp, original, statuscode, ...>>.                               *)
(***************************************************************************)

StatusMarker == "/status/"

IdTerminators == {"?", "%", "#", "\""}

\* The candidate tweet id of lines 73-77.
tweet_id(original) ==
    SplitCharsFirst(UnwrapOr(SplitNth(original, StatusMarker, 1), ""),
                    IdTerminators)

\* Mutant of row_accepted: the id is only required to be non-empty.
row_accepted_any_id(row) ==
    /\ ~(Len(row) < 3)
    /\ Contains(row[2], StatusMarker)
    /\ ~(tweet_id(row[2]) = "")

\* The filter of lines 60-82: TRUE when the closure goes on to build an item.
row_accepted(row) ==
    /\ ~(Len(row) < 3)
    /\ Contains(row[2], StatusMarker)
    /\ ~(tweet_id(row[2]) = ""
         \/ ~IsAsciiDigit(CharAt(tweet_id(row[2]), 1)))

\* format_wayback_timestamp slices by byte offset and panics when an offset
\* falls inside a multi-byte character.
format_wayback_timestamp_panics(ts) ==
    /\ ByteLen(ts) >= 8
    /\ \/ SlicePanics(ts, 0, 4) \/ SlicePanics(ts, 4, 6) \/ SlicePanics(ts, 6, 8)
       \/ /\ ByteLen(ts) >= 12
          /\ (SlicePanics(ts, 8, 10) \/ SlicePanics(ts, 10, 12))

\* Mutant of format_wayback_timestamp: the time is shown only when the
\* seconds are there too.
format_wayback_timestamp_needs_seconds(ts) ==
    IF ByteLen(ts) >= 8
    THEN LET year == ByteSlice(ts, 0, 4)
             month == ByteSlice(ts, 4, 6)
             day == ByteSlice(ts, 6, 8)
             time == IF ByteLen(ts) >= 14
                     THEN " " \o ByteSlice(ts, 8, 10) \o ":" \o ByteSlice(ts, 10, 12)
                     ELSE ""
         IN  year \o "-" \o month \o "-" \o day \o time
    ELSE ts

format_wayback_timestamp(ts) ==
    IF ByteLen(ts) >= 8
    THEN LET year == ByteSlice(ts, 0, 4)
             month == ByteSlice(ts, 4, 6)
             day == ByteSlice(ts, 6, 8)
             time == IF ByteLen(ts) >= 12
                     THEN " " \o ByteSlice(ts, 8, 10) \o ":" \o ByteSlice(ts, 10, 12)
                     ELSE ""
         IN  year \o "-" \o month \o "-" \o day \o time
    ELSE ts

\* Mutant of extract_author_from_url: a www. prefix is not removed.
extract_author_keeps_www(url) ==
    LET path1 == IF StripPrefix(url, "https://").some
                 THEN StripPrefix(url, "https://").val
                 ELSE UnwrapOr(StripPrefix(url, "http://"), url)
        path3 == IF StripPrefix(path1, "twitter.com/").some
                 THEN StripPrefix(path1, "twitter.com/")
                 ELSE StripPrefix(path1, "x.com/")
    IN  IF ~path3.some THEN None
        ELSE LET username == SplitNth(path3.val, "/", 0).val
             IN  IF username = "" THEN None ELSE Some("@" \o username)

extract_author_from_url(url) ==
    LET path1 == IF StripPrefix(url, "https://").some
                 THEN StripPrefix(url, "https://").val
                 ELSE UnwrapOr(StripPrefix(url, "http://"), url)
        path2 == UnwrapOr(StripPrefix(path1, "www."), path1)
        path3 == IF StripPrefix(path2, "twitter.com/").some
                 THEN StripPrefix(path2, "twitter.com/")
                 ELSE StripPrefix(path2, "x.com/")
    IN  IF ~path3.some THEN None
        ELSE LET username == SplitNth(path3.val, "/", 0).val
             IN  IF username = "" THEN None ELSE Some("@" \o username)

\* The TwitterArchiveItem built for an accepted row (lines 84-101).
new_item(row) ==
    [timestamp |-> row[1],
     original_url |-> row[2],
     archive_url |-> "https://web.archive.org/web/" \o row[1] \o "if_/" \o row[2],
     tweet_text |-> None,
     author |-> extract_author_from_url(row[2]),
     date_display |-> format_wayback_timestamp(row[1])]

\* Mutant of skip_header: row 0 is skipped only when it holds the labels.
skip_if_labelled(rows) ==
    IF Len(rows) > 0 /\ Head(rows) = <<"timestamp", "original", "statuscode">>
    THEN Tail(rows) ELSE rows

\* rows.into_iter().skip(1)
skip_header(rows) == IF Len(rows) = 0 THEN <<>> ELSE Tail(rows)

\* Mutant of filter_take: take(n) applied to the rows before the filter.
RECURSIVE take_then_filter(_, _)
take_then_filter(rows, n) ==
    IF n = 0 \/ Len(rows) = 0 THEN [panic |-> FALSE, items |-> <<>>]
    ELSE IF ~row_accepted(Head(rows)) THEN take_then_filter(Tail(rows), n - 1)
    ELSE IF format_wayback_timestamp_panics(Head(rows)[1])
         THEN [panic |-> TRUE, items |-> <<>>]
    ELSE LET rest == take_then_filter(Tail(rows), n - 1)
         IN  [panic |-> rest.panic,
              items |-> IF rest.panic THEN <<>>
                        ELSE <<new_item(Head(rows))>> \o rest.items]

\* .filter_map(..).take(n).collect() over the rows left: the iterator chain is
\* lazy, so no row is examined once n items have been taken.  The result
\* tells whether building an item panicked, and the items collected.
RECURSIVE filter_take(_, _)
filter_take(rows, n) ==
    IF n = 0 \/ Len(rows) = 0 THEN [panic |-> FALSE, items |-> <<>>]
    ELSE IF ~row_accepted(Head(rows)) THEN filter_take(Tail(rows), n)
    ELSE IF format_wayback_timestamp_panics(Head(rows)[1])
         THEN [panic |-> TRUE, items |-> <<>>]
    ELSE LET rest == filter_take(Tail(rows), n - 1)
         IN  [panic |-> rest.panic,
              items |-> IF rest.panic THEN <<>>
                        ELSE <<new_item(Head(rows))>> \o rest.items]

\* Mutant of parse_rows: JSON of another shape decodes to no rows.
parse_rows_lenient(body) ==
    [ok |-> body.kind # "not_json", rows |-> body.rows]

\* serde_json::from_str::<Vec<Vec<String>>>(&body) (line 53).  A body is
\* [kind |-> "not_json"], [kind |-> "json_other"] (JSON of another shape) or
\* [kind |-> "rows", rows |-> <<row, ...>>].
parse_rows(body) ==
    IF body.kind = "rows" THEN [ok |-> TRUE, rows |-> body.rows]
    ELSE [ok |-> FALSE, rows |-> <<>>]

(***************************************************************************)
(* The extraction cascade.  An archived page, once parsed by               *)
(* Html::parse_document, is a record of what the selectors of the cascade  *)
(* find in it, in document order:                                          *)
(*   og, tw, desc  the content attribute (an Option) of every element      *)
(*                 matching meta[property="og:description"],               *)
(*                 meta[name="twitter:description"], meta[name="description"]*)
(*   p_tweet_text  the joined text nodes of every p.tweet-text element     *)
(*   json_ld       the text of every script[type="application/ld+json"],   *)
(*                 as the JSON value it parses to (or invalid)             *)
(***************************************************************************)

\* char::is_whitespace: the characters with the White_Space property.  Those
\* that a string of the model can hold are U+0009 to U+000D, U+0020, U+0085,
\* U+00A0 and U+1680; U+2000 to U+200A, U+2028, U+2029, U+202F, U+205F and
\* U+3000 cannot be written in a string here, so no input holds them.
Whitespace == {" ", "\t", "\n", "", "\f", "\r", "", " ", " "}

\* str::trim
RECURSIVE trim_start(_)
trim_start(s) ==
    IF Len(s) > 0 /\ CharAt(s, 1) \in Whitespace THEN trim_start(Tail(s)) ELSE s

RECURSIVE trim_end(_)
trim_end(s) ==
    IF Len(s) > 0 /\ CharAt(s, Len(s)) \in Whitespace
    THEN trim_end(SubSeq(s, 1, Len(s) - 1)) ELSE s

trim(s) == trim_end(trim_start(s))

UpperLetters == "ABCDEFGHIJKLMNOPQRSTUVWXYZ"

LowerLetters == "abcdefghijklmnopqrstuvwxyz"

\* str::to_lowercase
RECURSIVE to_lowercase(_)
to_lowercase(s) ==
    IF Len(s) = 0 THEN ""
    ELSE LET i == Find(UpperLetters, CharAt(s, 1))
         IN  (IF i = 0 THEN CharAt(s, 1) ELSE CharAt(LowerLetters, i))
                 \o to_lowercase(Tail(s))

\* A trimmed string, None when nothing is left of it.
non_empty_trimmed(s) == IF trim(s) = "" THEN None ELSE Some(trim(s))

\* extract_meta_content on the elements the selector matches: the first
\* element decides, by its content attribute.
extract_meta_content(elements) ==
    IF Len(elements) = 0 THEN None
    ELSE IF ~Head(elements).some THEN None
    ELSE non_empty_trimmed(Head(elements).val)

\* extract_element_text on the elements the selector matches.
extract_element_text(elements) ==
    IF Len(elements) = 0 THEN None ELSE non_empty_trimmed(Head(elements))

\* JSON values, as far as the code looks into them.
JsonString(s) == [t |-> "string", s |-> s, body |-> None, items |-> <<>>]

JsonOther == [t |-> "other", s |-> "", body |-> None, items |-> <<>>]

\* An object; body is its "articleBody" member (Some(JSON value)) or None.
JsonObject(body) == [t |-> "object", s |-> "", body |-> body, items |-> <<>>]

JsonArray(items) == [t |-> "array", s |-> "", body |-> None, items |-> items]

InvalidJson == [valid |-> FALSE, value |-> JsonOther]

ValidJson(v) == [valid |-> TRUE, value |-> v]

extract_article_body_from_value(val) ==
    IF val.t # "object" \/ ~val.body.some THEN None
    ELSE IF val.body.val.t # "string" THEN None
    ELSE non_empty_trimmed(val.body.val.s)

\* The first element of an array value that carries an article body.
RECURSIVE first_article_body(_)
first_article_body(items) ==
    IF Len(items) = 0 THEN None
    ELSE IF extract_article_body_from_value(Head(items)).some
         THEN extract_article_body_from_value(Head(items))
    ELSE first_article_body(Tail(items))

\* Mutant of extract_json_ld_article_body: a block that is not valid JSON ends
\* the search.
RECURSIVE json_ld_stops_at_invalid(_)
json_ld_stops_at_invalid(scripts) ==
    IF Len(scripts) = 0 THEN None
    ELSE LET script == Head(scripts)
             direct == extract_article_body_from_value(script.value)
             in_array == IF script.value.t = "array"
                         THEN first_article_body(script.value.items)
                         ELSE None
         IN  IF ~script.valid THEN None
             ELSE IF direct.some THEN direct
             ELSE IF in_array.some THEN in_array
             ELSE json_ld_stops_at_invalid(Tail(scripts))

RECURSIVE extract_json_ld_article_body(_)
extract_json_ld_article_body(scripts) ==
    IF Len(scripts) = 0 THEN None
    ELSE LET script == Head(scripts)
             direct == extract_article_body_from_value(script.value)
             in_array == IF script.value.t = "array"
                         THEN first_article_body(script.value.items)
                         ELSE None
         IN  IF script.valid /\ direct.some THEN direct
             ELSE IF script.valid /\ in_array.some THEN in_array
             ELSE extract_json_ld_article_body(Tail(scripts))

\* The boilerplate test of strategy 3 (lines 159-166).
description_kept(text) ==
    LET lower == to_lowercase(text)
    IN  /\ ~StartsWith(lower, "from breaking news")
        /\ ~StartsWith(lower, "the latest posts")
        /\ ~StartsWith(lower, "post with")
        /\ ~Contains(lower, "on twitter")
        /\ ~Contains(lower, "on x")
        /\ ByteLen(text) > 20

\* Mutant of extract_tweet_text: the page elements are tried before the meta
\* tags.
extract_tweet_text_body_first(document) ==
    LET og == extract_meta_content(document.og)
        tw == extract_meta_content(document.tw)
        desc == extract_meta_content(document.desc)
        p == extract_element_text(document.p_tweet_text)
        ld == extract_json_ld_article_body(document.json_ld)
    IN  IF p.some THEN p
        ELSE IF ld.some THEN ld
        ELSE IF og.some THEN og
        ELSE IF tw.some THEN tw
        ELSE IF desc.some /\ description_kept(desc.val) THEN desc
        ELSE None

extract_tweet_text(document) ==
    LET og == extract_meta_content(document.og)
        tw == extract_meta_content(document.tw)
        desc == extract_meta_content(document.desc)
        p == extract_element_text(document.p_tweet_text)
        ld == extract_json_ld_article_body(document.json_ld)
    IN  IF og.some THEN og
        ELSE IF tw.some THEN tw
        ELSE IF desc.some /\ description_kept(desc.val) THEN desc
        ELSE IF p.some THEN p
        ELSE IF ld.some THEN ld
        ELSE None

\* fetch_tweet_text_with_client on the outcome of client.get(url).send():
\* [sent |-> send() returned Ok, success |-> status().is_success(),
\*  read |-> text() returned Ok, html |-> the parsed body].
fetch_tweet_text_with_client(response) ==
    IF ~response.sent THEN None
    ELSE IF ~response.success THEN None
    ELSE IF ~response.read THEN None
    ELSE extract_tweet_text(response.html)

(***************************************************************************)
(* The inputs of the model: what the archive answers.                      *)
(***************************************************************************)

\* Largest max_items a fetcher is constructed with.
MaxMaxItems == 4

\* Largest number of data rows (rows after row 0) of an index response.
MaxRows == 4

HeaderRow == <<"timestamp", "original", "statuscode">>

\* Row 0 of a response: the header, or a row that the filter would accept.
HeaderRows == {HeaderRow, <<"20200101", "https://x.com/h/status/1", "200">>}

\* The data rows the index can answer with, in the order it lists them
\* (collapse=urlkey: each URL at most once).
CdxRows ==
    << <<"20230615143022", "https://twitter.com/testuser/status/123", "200">>,
       <<"20230615143022", "https://twitter.com/short/status/5">>,
       <<"20230615", "http://www.x.com/b/status/456abc", "200">>,
       <<"20230101000000", "https://twitter.com/testuser", "200">>,
       <<"2023", "x.com/c/status/7?s=20", "200", "extra">>,
       <<"2023061é", "https://x.com/e/status/8", "200">>,
       <<"20240101000000", "https://example.com/d/status/9%22", "200">> >>

\* The rows of CdxRows whose positions are in S, in the order of CdxRows.
RECURSIVE RowsAt(_, _)
RowsAt(S, from) ==
    IF from > Len(CdxRows) THEN <<>>
    ELSE (IF from \in S THEN <<CdxRows[from]>> ELSE <<>>) \o RowsAt(S, from + 1)

\* The bodies of the index response: not JSON, JSON of another shape, the
\* empty array, or a row 0 followed by at most MaxRows data rows.
IndexBodies ==
    {[kind |-> "not_json", rows |-> <<>>],
     [kind |-> "json_other", rows |-> <<>>],
     [kind |-> "rows", rows |-> <<>>]}
    \cup {[kind |-> "rows", rows |-> <<h>> \o RowsAt(S, 1)] :
            h \in HeaderRows,
            S \in {T \in SUBSET (1..Len(CdxRows)) : Cardinality(T) <= MaxRows}}

Document(og, tw, desc, p, ld) ==
    [og |-> og, tw |-> tw, desc |-> desc, p_tweet_text |-> p, json_ld |-> ld]

EmptyDocument == Document(<<>>, <<>>, <<>>, <<>>, <<>>)

\* The page the archive holds for a URL.
ArchivedPage(url) ==
    IF url = "https://web.archive.org/web/20230615143022if_/https://twitter.com/testuser/status/123"
    THEN Document(<<Some("  Hello from testuser ")>>, <<>>, <<>>,
                  <<"not picked">>, <<>>)
    ELSE IF url = "https://web.archive.org/web/20230615if_/http://www.x.com/b/status/456abc"
    THEN Document(<<Some(" ")>>, <<>>, <<Some("Post with a photo, on X")>>,
                  <<"Old school tweet text">>, <<>>)
    ELSE IF url = "https://web.archive.org/web/2023if_/x.com/c/status/7?s=20"
    THEN Document(<<None>>, <<>>, <<Some("too short")>>, <<>>, <<InvalidJson>>)
    ELSE IF url = "https://web.archive.org/web/20240101000000if_/https://example.com/d/status/9%22"
    THEN Document(<<>>, <<>>, <<>>, <<>>,
                  <<InvalidJson,
                    ValidJson(JsonArray(<<JsonOther,
                        JsonObject(Some(JsonString("Tweet from JSON-LD")))>>))>>)
    ELSE EmptyDocument

\* The outcomes of client.get(archive_url).send() and of reading the body:
\* the request fails, the status is not a success (the page is not read),
\* the body cannot be read, or the page arrives.
PageResponses(url) ==
    {[sent |-> FALSE, success |-> FALSE, read |-> FALSE, html |-> EmptyDocument],
     [sent |-> TRUE, success |-> FALSE, read |-> TRUE, html |-> ArchivedPage(url)],
     [sent |-> TRUE, success |-> TRUE, read |-> FALSE, html |-> EmptyDocument],
     [sent |-> TRUE, success |-> TRUE, read |-> TRUE, html |-> ArchivedPage(url)]}

(***************************************************************************)
(* parse_search_results (src/twitter_parser.rs).                           *)
(***************************************************************************)

\* str::lines: the text between line feeds, without a carriage return before
\* the line feed; a line feed at the very end starts no further line.
RECURSIVE lines(_)
lines(output) ==
    IF output = "" THEN <<>>
    ELSE LET nl == Find(output, "\n")
             first == IF nl = 0 THEN output ELSE SubSeq(output, 1, nl - 1)
             rest == IF nl = 0 THEN "" ELSE SubSeq(output, nl + 1, Len(output))
             line == IF nl # 0 /\ Len(first) > 0 /\ CharAt(first, Len(first)) = "\r"
                     THEN SubSeq(first, 1, Len(first) - 1) ELSE first
         IN  <<line>> \o lines(rest)

\* str::trim_start_matches(p) for a string pattern.
RECURSIVE trim_start_matches(_, _)
trim_start_matches(s, p) ==
    IF StartsWith(s, p) THEN trim_start_matches(SubSeq(s, Len(p) + 1, Len(s)), p)
    ELSE s

\* current_tweet: None or Some((author, text, url)).
NoTweet == [some |-> FALSE, author |-> "", text |-> "", url |-> ""]

CurrentTweet(author, text, url) ==
    [some |-> TRUE, author |-> author, text |-> text, url |-> url]

\* tweets after current_tweet has been finalized: it is pushed when it has a
\* URL (lines 17-26, 42-52, 62-72).
finalized(tweets, current_tweet) ==
    IF current_tweet.some /\ current_tweet.url # ""
    THEN Append(tweets, [id |-> current_tweet.url,
                         author |-> current_tweet.author,
                         text |-> current_tweet.text,
                         url |-> Some(current_tweet.url)])
    ELSE tweets

\* One turn of the loop over the lines (lines 12-59): the tweets and the
\* current tweet after the line.
parse_line(tweets, current_tweet, raw) ==
    LET line == trim(raw)
        colon == Find(line, ":")
    IN  IF StartsWith(line, "@")
        THEN [tweets |-> finalized(tweets, current_tweet),
              current_tweet |->
                  IF colon = 0 THEN NoTweet
                  ELSE CurrentTweet(
                           trim_start_matches(SubSeq(line, 1, colon - 1), "@"),
                           trim(SubSeq(line, colon + 1, Len(line))),
                           "")]
        ELSE IF StartsWith(line, "URL:") \/ StartsWith(line, "http")
        THEN [tweets |-> tweets,
              current_tweet |->
                  IF current_tweet.some
                  THEN [current_tweet EXCEPT
                           !.url = trim(trim_start_matches(line, "URL:"))]
                  ELSE current_tweet]
        ELSE IF line = "---" \/ line = ""
        THEN [tweets |-> finalized(tweets, current_tweet), current_tweet |-> NoTweet]
        ELSE [tweets |-> tweets,
              current_tweet |->
                  IF current_tweet.some
                  THEN [current_tweet EXCEPT
                           !.text = (IF @ # "" THEN @ \o " " ELSE @) \o line]
                  ELSE current_tweet]

RECURSIVE parse_lines(_, _, _)
parse_lines(tweets, current_tweet, rest) ==
    IF Len(rest) = 0 THEN finalized(tweets, current_tweet)
    ELSE LET after == parse_line(tweets, current_tweet, Head(rest))
         IN  parse_lines(after.tweets, after.current_tweet, Tail(rest))

parse_search_results(output) == parse_lines(<<>>, NoTweet, lines(output))

(***************************************************************************)
(* TwitterArchiveWidget (src/ui/widgets/twitter_archive.rs): its fields as *)
(* a record, its methods as operators on that record.                      *)
(***************************************************************************)

\* FeedData, as far as the widget tells its variants apart.
TwitterArchive(its) == [kind |-> "TwitterArchive", items |-> its, message |-> ""]

Error(e) == [kind |-> "Error", items |-> <<>>, message |-> e]

Loading == [kind |-> "Loading", items |-> <<>>, message |-> ""]

\* A variant of another feed (HackerNews, Stocks, ...).
OtherFeedData == [kind |-> "HackerNews", items |-> <<>>, message |-> ""]

\* TwitterArchiveWidget::new; scroll_state holds ListState::selected().
archive_new ==
    [items |-> <<>>,
     loading |-> TRUE,
     error |-> None,
     scroll_state |-> Some(0),
     selected |-> FALSE]

\* What render draws inside the block: which of the four views, and the
\* list items of that view.
ListLines(its) ==
    [i \in 1..Len(its) |->
        [index |-> i,
         preview |-> UnwrapOr(its[i].tweet_text, its[i].original_url),
         author_str |-> UnwrapOr(its[i].author, "unknown"),
         date_display |-> its[i].date_display]]

\* Mutant of archive_render: held items are listed before the error is
\* looked at.
archive_render_items_first(w) ==
    IF w.loading /\ Len(w.items) = 0
    THEN [view |-> "loading", lines |-> <<"Loading archived tweets...">>]
    ELSE IF Len(w.items) > 0
    THEN [view |-> "list", lines |-> ListLines(w.items)]
    ELSE IF w.error.some
    THEN [view |-> "error", lines |-> <<"Error: " \o w.error.val>>]
    ELSE [view |-> "empty", lines |-> <<"No archived tweets found.">>]

archive_render(w) ==
    IF w.loading /\ Len(w.items) = 0
    THEN [view |-> "loading", lines |-> <<"Loading archived tweets...">>]
    ELSE IF w.error.some
    THEN [view |-> "error", lines |-> <<"Error: " \o w.error.val>>]
    ELSE IF Len(w.items) = 0
    THEN [view |-> "empty", lines |-> <<"No archived tweets found.">>]
    ELSE [view |-> "list", lines |-> ListLines(w.items)]

\* Mutant of archive_update_data: new items put the cursor back on the first
\* row.
archive_update_data_resets_cursor(w, data) ==
    LET w1 == [w EXCEPT !.loading = FALSE]
    IN  CASE data.kind = "TwitterArchive" ->
                [w1 EXCEPT !.items = data.items, !.error = None,
                           !.scroll_state = Some(0)]
          [] data.kind = "Error" -> [w1 EXCEPT !.error = Some(data.message)]
          [] data.kind = "Loading" -> [w1 EXCEPT !.loading = TRUE]
          [] OTHER -> w1

\* Mutant of archive_update_data: new items leave an earlier error in place.
archive_update_data_keeps_error(w, data) ==
    LET w1 == [w EXCEPT !.loading = FALSE]
    IN  CASE data.kind = "TwitterArchive" -> [w1 EXCEPT !.items = data.items]
          [] data.kind = "Error" -> [w1 EXCEPT !.error = Some(data.message)]
          [] data.kind = "Loading" -> [w1 EXCEPT !.loading = TRUE]
          [] OTHER -> w1

archive_update_data(w, data) ==
    LET w1 == [w EXCEPT !.loading = FALSE]
    IN  CASE data.kind = "TwitterArchive" ->
                [w1 EXCEPT !.items = data.items, !.error = None]
          [] data.kind = "Error" -> [w1 EXCEPT !.error = Some(data.message)]
          [] data.kind = "Loading" -> [w1 EXCEPT !.loading = TRUE]
          [] OTHER -> w1

\* usize::saturating_sub
saturating_sub(a, b) == IF a > b THEN a - b ELSE 0

archive_scroll_up(w) ==
    IF w.scroll_state.some /\ w.scroll_state.val > 0
    THEN [w EXCEPT !.scroll_state = Some(w.scroll_state.val - 1)]
    ELSE w

\* Mutant of archive_scroll_down: the cursor may step past the last item.
archive_scroll_down_to_len(w) ==
    IF w.scroll_state.some /\ w.scroll_state.val < Len(w.items)
    THEN [w EXCEPT !.scroll_state = Some(w.scroll_state.val + 1)]
    ELSE w

archive_scroll_down(w) ==
    IF w.scroll_state.some /\ w.scroll_state.val < saturating_sub(Len(w.items), 1)
    THEN [w EXCEPT !.scroll_state = Some(w.scroll_state.val + 1)]
    ELSE w

archive_set_selected(w, selected) == [w EXCEPT !.selected = selected]

\* The SelectedItem built for an item (lines 172-184).
SelectedItemOf(item) ==
    [title |-> UnwrapOr(item.tweet_text, item.original_url),
     url |-> Some(item.archive_url),
     description |-> item.tweet_text,
     source |-> UnwrapOr(item.author, "Wayback Machine"),
     metadata |-> Some(item.date_display)]

\* Mutant of archive_get_selected_item: the cursor counts from 1.
archive_get_selected_item_from_one(w) ==
    IF ~w.scroll_state.some THEN None
    ELSE IF w.scroll_state.val = 0 \/ w.scroll_state.val > Len(w.items) THEN None
    ELSE Some(SelectedItemOf(w.items[w.scroll_state.val]))

\* items.get(idx) counts from 0, a sequence from 1.
archive_get_selected_item(w) ==
    IF ~w.scroll_state.some THEN None
    ELSE IF w.scroll_state.val >= Len(w.items) THEN None
    ELSE Some(SelectedItemOf(w.items[w.scroll_state.val + 1]))

\* No method has been called since the widget was constructed.
NoCall == [op |-> "new", data |-> Loading, ret |-> None]

Called(op, data) == [op |-> op, data |-> data, ret |-> None]

\* A method that takes &self was called and returned ret.
Asked(op, ret) == [op |-> op, data |-> Loading, ret |-> ret]

(***************************************************************************)
(* TwitterWidget (src/ui/widgets/twitter.rs): its fields as a record, its  *)
(* methods as operators on that record.  The result of the bird command a  *)
(* method runs is an argument of its operator.                             *)
(***************************************************************************)

\* What execute_bird_command returns: Ok(stdout) or Err(message).
BirdOk(output) == [run |-> TRUE, ok |-> TRUE, text |-> output]

BirdErr(e) == [run |-> TRUE, ok |-> FALSE, text |-> e]

\* The method returned without running the command.
NotRun == [run |-> FALSE, ok |-> FALSE, text |-> ""]

twitter_new ==
    [tweets |-> <<>>,
     selected_index |-> 0,
     list_state |-> Some(0),
     mode |-> "Normal",
     compose_text |-> "",
     search_query |-> "",
     status_message |-> None]

twitter_open_compose(w) == [w EXCEPT !.mode = "Compose", !.compose_text = ""]

twitter_open_reply(w) ==
    IF Len(w.tweets) # 0 THEN [w EXCEPT !.mode = "Reply", !.compose_text = ""]
    ELSE w

twitter_open_search(w) == [w EXCEPT !.mode = "Search", !.search_query = ""]

\* Mutant of twitter_close_modal: the search query is kept.
twitter_close_modal_keeps_query(w) ==
    [w EXCEPT !.mode = "Normal", !.compose_text = ""]

twitter_close_modal(w) ==
    [w EXCEPT !.mode = "Normal", !.compose_text = "", !.search_query = ""]

twitter_add_char(w, c) ==
    CASE w.mode \in {"Compose", "Reply"} -> [w EXCEPT !.compose_text = @ \o c]
      [] w.mode = "Search" -> [w EXCEPT !.search_query = @ \o c]
      [] OTHER -> w

\* String::pop
pop(text) == IF text = "" THEN text ELSE SubSeq(text, 1, Len(text) - 1)

twitter_delete_char(w) ==
    CASE w.mode \in {"Compose", "Reply"} -> [w EXCEPT !.compose_text = pop(@)]
      [] w.mode = "Search" -> [w EXCEPT !.search_query = pop(@)]
      [] OTHER -> w

\* format!("{}", idx)
RECURSIVE to_decimal(_)
to_decimal(n) ==
    IF n < 10 THEN SubSeq("0123456789", n + 1, n + 1)
    ELSE to_decimal(n \div 10) \o SubSeq("0123456789", (n % 10) + 1, (n % 10) + 1)

\* The tweets pushed for the lines from position idx on (lines 256-265).
RECURSIVE tweets_of_lines(_, _, _)
tweets_of_lines(prefix, ls, idx) ==
    IF Len(ls) = 0 THEN <<>>
    ELSE (IF Head(ls) # ""
          THEN <<[id |-> prefix \o to_decimal(idx), author |-> "Unknown",
                  text |-> Head(ls), url |-> None]>>
          ELSE <<>>)
         \o tweets_of_lines(prefix, Tail(ls), idx + 1)

\* TwitterWidget::parse_search_results
twitter_parse_search_results(w, output) ==
    [w EXCEPT !.tweets = tweets_of_lines("tweet-", lines(output), 0)]

twitter_parse_mentions(w, output) ==
    [w EXCEPT !.tweets = tweets_of_lines("mention-", lines(output), 0)]

\* The methods that run the command when they do not return early.
tweet_runs(w) == w.compose_text # ""

reply_runs(w) ==
    /\ ~(w.compose_text = "" \/ Len(w.tweets) = 0)
    /\ w.selected_index < Len(w.tweets)
    /\ w.tweets[w.selected_index + 1].url.some

search_runs(w) == w.search_query # ""

twitter_submit_tweet(w, result) ==
    IF ~tweet_runs(w) THEN w
    ELSE IF result.ok
    THEN twitter_close_modal(
             [w EXCEPT !.status_message = Some("Tweet posted: " \o result.text)])
    ELSE [w EXCEPT !.status_message = Some("Error: " \o result.text)]

twitter_submit_reply(w, result) ==
    IF ~reply_runs(w) THEN w
    ELSE IF result.ok
    THEN twitter_close_modal(
             [w EXCEPT !.status_message = Some("Reply posted: " \o result.text)])
    ELSE [w EXCEPT !.status_message = Some("Error: " \o result.text)]

\* Mutant of twitter_submit_search: a failed search closes the modal.
twitter_submit_search_closes_on_error(w, result) ==
    IF ~search_runs(w) THEN w
    ELSE IF result.ok
    THEN twitter_close_modal(twitter_parse_search_results(w, result.text))
    ELSE twitter_close_modal(
             [w EXCEPT !.status_message = Some("Search error: " \o result.text)])

twitter_submit_search(w, result) ==
    IF ~search_runs(w) THEN w
    ELSE IF result.ok
    THEN twitter_close_modal(twitter_parse_search_results(w, result.text))
    ELSE [w EXCEPT !.status_message = Some("Search error: " \o result.text)]

twitter_load_mentions(w, result) ==
    IF result.ok THEN twitter_parse_mentions(w, result.text)
    ELSE [w EXCEPT !.status_message = Some("Mentions error: " \o result.text)]

twitter_scroll_up(w) ==
    IF Len(w.tweets) # 0 /\ w.selected_index > 0
    THEN [w EXCEPT !.selected_index = @ - 1,
                   !.list_state = Some(w.selected_index - 1)]
    ELSE w

twitter_scroll_down(w) ==
    IF Len(w.tweets) # 0 /\ w.selected_index < Len(w.tweets) - 1
    THEN [w EXCEPT !.selected_index = @ + 1,
                   !.list_state = Some(w.selected_index + 1)]
    ELSE w

(***************************************************************************)
(* The stopwatch of Clock (src/ui/widgets/clock.rs).  Time is counted in   *)
(* whole units; clock.now is what Instant::now() returned when it was last *)
(* read.  toggle_stopwatch reads the time once; tick_stopwatch reads it    *)
(* twice (last_tick.elapsed(), then Instant::now()) and the second reading *)
(* may be later than the first.                                            *)
(***************************************************************************)

\* Clock::new with StopwatchState::default, at time 0.
clock_new ==
    [stopwatch_state |-> [running |-> FALSE, elapsed |-> 0, last_tick |-> None],
     now |-> 0]

\* Instant::elapsed
instant_elapsed(instant, now) == now - instant

\* Mutant of toggle_stopwatch: pausing keeps last_tick.
toggle_stopwatch_keeps_tick(c) ==
    LET sw == c.stopwatch_state
    IN  IF sw.running
        THEN [c EXCEPT !.stopwatch_state =
                 [running |-> FALSE,
                  elapsed |-> IF sw.last_tick.some
                              THEN sw.elapsed + instant_elapsed(sw.last_tick.val, c.now)
                              ELSE sw.elapsed,
                  last_tick |-> sw.last_tick]]
        ELSE [c EXCEPT !.stopwatch_state =
                 [sw EXCEPT !.running = TRUE, !.last_tick = Some(c.now)]]

toggle_stopwatch(c) ==
    LET sw == c.stopwatch_state
    IN  IF sw.running
        THEN [c EXCEPT !.stopwatch_state =
                 [running |-> FALSE,
                  elapsed |-> IF sw.last_tick.some
                              THEN sw.elapsed + instant_elapsed(sw.last_tick.val, c.now)
                              ELSE sw.elapsed,
                  last_tick |-> None]]
        ELSE [c EXCEPT !.stopwatch_state =
                 [sw EXCEPT !.running = TRUE, !.last_tick = Some(c.now)]]

reset_stopwatch(c) ==
    [c EXCEPT !.stopwatch_state =
        [running |-> FALSE, elapsed |-> 0, last_tick |-> None]]

\* later is the time passed between the two readings of the clock.
tick_stopwatch(c, later) ==
    LET sw == c.stopwatch_state
    IN  IF sw.running /\ sw.last_tick.some
        THEN [c EXCEPT !.stopwatch_state =
                 [sw EXCEPT !.elapsed = @ + instant_elapsed(sw.last_tick.val, c.now),
                            !.last_tick = Some(c.now + later)],
                       !.now = @ + later]
        ELSE c

(***************************************************************************)
(* TwitterArchiveFetcher::fetch as a state machine.                        *)
(***************************************************************************)

VARIABLES
    pc,              \* "idle", "index", "enrich", "done" or "panicked"
    max_items,       \* self.max_items
    index_body,      \* the body received for the index request
    items,           \* the local `items` of fetch
    next_url,        \* position in `urls` of the next future of the stream
    in_progress,     \* positions of the futures held by buffer_unordered
    texts,           \* the results collected so far, in the order they arrived
    fetched,         \* position -> the response its request received
    requested,       \* every archive_url requested, in the order of the requests
    result,          \* what fetch returned
    fn_in,           \* the argument of a function applied on its own
    fn_out,          \* what the function returned for fn_in
    widget,          \* the fields of a TwitterArchiveWidget
    call,            \* the method last called on a widget or on the clock
    twitter,         \* the fields of a TwitterWidget
    clock            \* the stopwatch of a Clock and the monotonic time

fetchVars == <<pc, max_items, index_body, items, next_url, in_progress, texts,
               fetched, requested, result>>

fnVars == <<fn_in, fn_out>>

\* Everything the actions of fetch leave alone.
widgetVars == <<widget, call>>

notFetchVars == <<fnVars, widgetVars, twitter, clock>>

\* Everything the application of a function on its own leaves alone.
notFnVars == <<fetchVars, widgetVars, twitter, clock>>

\* Everything the methods of TwitterArchiveWidget, of TwitterWidget and of
\* Clock leave alone.
notWidgetVars == <<fetchVars, fnVars, twitter, clock>>

notTwitterVars == <<fetchVars, fnVars, widget, clock>>

notClockVars == <<fetchVars, fnVars, widget, twitter>>

vars == <<fetchVars, fnVars, widgetVars, twitter, clock>>

NotApplied == [applied |-> FALSE]

NoBody == [kind |-> "none", rows |-> <<>>]

Pending == [kind |-> "pending", items |-> <<>>, cause |-> ""]

Ok(v) == [kind |-> "ok", items |-> v, cause |-> ""]

Err(cause) == [kind |-> "err", items |-> <<>>, cause |-> cause]

\* .buffer_unordered(3)
BufferWidth == 3

\* Mutant of pulled: no bound on the futures held.
pulled_unbounded(held, left) == left

\* Mutant of pulled: a new batch is started only when the buffer is empty.
pulled_in_chunks(held, left) ==
    IF held # 0 THEN 0 ELSE IF left < 3 THEN left ELSE 3

\* How many futures buffer_unordered pulls from the stream when it holds
\* `held` of them and `left` are still in the stream.
pulled(held, left) ==
    IF held >= BufferWidth THEN 0
    ELSE IF left < BufferWidth - held THEN left ELSE BufferWidth - held

\* Mutant of zip_texts: items whose text is missing are dropped.
zip_drop_failed(its, txts) ==
    SelectSeq([i \in 1..Len(its) |->
                  IF i <= Len(txts) THEN [its[i] EXCEPT !.tweet_text = txts[i]]
                  ELSE its[i]],
              LAMBDA it : it.tweet_text.some)

\* items.iter_mut().zip(texts): the first text goes to the first item.
zip_texts(its, txts) ==
    [i \in 1..Len(its) |->
        IF i <= Len(txts) THEN [its[i] EXCEPT !.tweet_text = txts[i]] ELSE its[i]]

\* The archive_url of the items at positions from..to, in order.
urls_of(its, from, to) == [k \in 1..(to + 1 - from) |-> its[from + k - 1].archive_url]

Init ==
    /\ pc = "idle"
    /\ max_items \in 0..MaxMaxItems
    /\ index_body = NoBody
    /\ items = <<>>
    /\ next_url = 1
    /\ in_progress = {}
    /\ texts = <<>>
    /\ fetched = <<>>
    /\ requested = <<>>
    /\ result = Pending
    /\ fn_in = <<>>
    /\ fn_out = NotApplied
    /\ widget = archive_new
    /\ call = NoCall
    /\ twitter = twitter_new
    /\ clock = clock_new

\* fetch is called: the index request is sent (line 50).
CallFetch ==
    /\ pc = "idle"
    /\ pc' = "index"
    /\ UNCHANGED <<max_items, index_body, items, next_url, in_progress, texts,
                   fetched, requested, result, notFetchVars>>

\* send() or text() of the index request returns an error (lines 50, 52).
IndexRequestFails(cause) ==
    /\ pc = "index"
    /\ pc' = "done"
    /\ result' = Err(cause)
    /\ UNCHANGED <<max_items, index_body, items, next_url, in_progress, texts,
                   fetched, requested, notFetchVars>>

\* The body of the index response arrives: lines 53-106 and 292-303 up to the
\* first await of the enrichment, the whole of fetch when there is no item.
IndexResponse(body) ==
    /\ pc = "index"
    /\ index_body' = body
    /\ IF ~parse_rows(body).ok
       THEN /\ pc' = "done"
            /\ result' = Err("json")
            /\ UNCHANGED <<items, next_url, in_progress, requested>>
       ELSE LET got == filter_take(skip_header(parse_rows(body).rows), max_items)
                n == pulled(0, Len(got.items))
            IN  IF got.panic
                THEN /\ pc' = "panicked"
                     /\ UNCHANGED <<items, next_url, in_progress, requested, result>>
                ELSE /\ items' = got.items
                     /\ in_progress' = 1..n
                     /\ next_url' = n + 1
                     /\ requested' = urls_of(got.items, 1, n)
                     /\ IF Len(got.items) = 0
                        THEN pc' = "done" /\ result' = Ok(<<>>)
                        ELSE pc' = "enrich" /\ UNCHANGED result
    /\ UNCHANGED <<max_items, texts, fetched, notFetchVars>>

\* The request of the future at position i completes with response resp:
\* its result is collected, the buffer pulls the next future of the stream,
\* and when nothing is left the texts are zipped and fetch returns
\* (lines 297-309).
PageResponse(i, resp) ==
    /\ pc = "enrich"
    /\ i \in in_progress
    /\ LET n == pulled(Cardinality(in_progress) - 1, Len(items) + 1 - next_url)
           held == (in_progress \ {i}) \cup (next_url..(next_url + n - 1))
           collected == Append(texts, fetch_tweet_text_with_client(resp))
       IN  /\ texts' = collected
           /\ fetched' = (i :> resp) @@ fetched
           /\ in_progress' = held
           /\ next_url' = next_url + n
           /\ requested' = requested \o urls_of(items, next_url, next_url + n - 1)
           /\ IF held = {}
              THEN /\ items' = zip_texts(items, collected)
                   /\ result' = Ok(zip_texts(items, collected))
                   /\ pc' = "done"
              ELSE UNCHANGED <<items, result, pc>>
    /\ UNCHANGED <<max_items, index_body, notFetchVars>>

Next ==
    \/ CallFetch
    \/ \E cause \in {"send", "read"} : IndexRequestFails(cause)
    \/ \E body \in IndexBodies : IndexResponse(body)
    \/ \E i \in in_progress : \E resp \in PageResponses(items[i].archive_url) :
          PageResponse(i, resp)

Spec == Init /\ [][Next]_vars

\* Every page request eventually completes: the client is built with a
\* 20 s timeout (line 17), so send() and text() return.
PageRequestCompletes ==
    \E i \in in_progress : \E resp \in PageResponses(items[i].archive_url) :
        PageResponse(i, resp)

FairSpec == Spec /\ WF_vars(PageRequestCompletes)

(***************************************************************************)
(* Properties of fetch.                                                    *)
(***************************************************************************)

\* A page request failed: network error, non-success status, undecodable
\* body, or a page in which no strategy matches.
RequestFailed(resp) ==
    \/ ~resp.sent
    \/ ~resp.success
    \/ ~resp.read
    \/ ~extract_tweet_text(resp.html).some

Returned == pc = "done" /\ result.kind = "ok"

\* C1: when fetch returns, the tweet_text of output item i is what the
\* extraction yields for the response received for item i's own archive_url,
\* whatever the order in which the requests completed.
C1_TextMatchesOwnPage ==
    Returned =>
        \A i \in 1..Len(result.items) :
            result.items[i].tweet_text = fetch_tweet_text_with_client(fetched[i])

\* C2: the archived-page requests issued and not yet completed never number
\* more than 3, so a fourth request is issued only once one has completed.
C2_AtMostThreeInFlight ==
    /\ Len(requested) <= Len(texts) + 3
    /\ Cardinality(in_progress) <= 3
    /\ Len(requested) > 3 => Len(texts) >= 1

C2_Witness ==
    /\ pc = "enrich"
    /\ Len(requested) = 4
    /\ Len(texts) = 1
    /\ Cardinality(in_progress) = 3

\* C3: when the request of capture i fails, fetch still returns Ok with all
\* N captures, tweet_text is None for exactly the captures whose request
\* failed, and every other capture carries the text of its own page.
C3_FailureStaysWithItsItem ==
    Returned =>
        /\ Len(result.items) = Len(requested)
        /\ \A i \in 1..Len(result.items) :
              IF RequestFailed(fetched[i])
              THEN result.items[i].tweet_text = None
              ELSE result.items[i].tweet_text = extract_tweet_text(fetched[i].html)

\* C4: fetch returns an error exactly when the index request failed or its
\* body is not a JSON array of string arrays; then nothing is returned and no
\* archived page is requested, and no later stage produces an error.
C4_ErrorOnlyFromIndex ==
    LET indexFailed == pc # "index" /\ pc # "idle" /\ index_body = NoBody
        undecodable == index_body # NoBody /\ index_body.kind # "rows"
    IN  /\ result.kind = "err" <=> (indexFailed \/ undecodable)
        /\ result.kind = "err" =>
              /\ pc = "done"
              /\ result.items = <<>>
              /\ items = <<>>
              /\ requested = <<>>
              /\ texts = <<>>

C4_Witness ==
    /\ result.kind = "err"
    /\ index_body.kind = "json_other"

\* C5: a step of the enrichment keeps the number of items and, for every
\* item, its timestamp, original_url, archive_url, author and date_display;
\* what fetch returns is that list.
C5_EnrichmentChangesOnlyText ==
    [][pc = "enrich" =>
          /\ Len(items') = Len(items)
          /\ \A i \in 1..Len(items) :
                /\ items'[i].timestamp = items[i].timestamp
                /\ items'[i].original_url = items[i].original_url
                /\ items'[i].archive_url = items[i].archive_url
                /\ items'[i].author = items[i].author
                /\ items'[i].date_display = items[i].date_display
          /\ pc' = "done" => result' = Ok(items')]_vars

C5_Witness ==
    /\ Returned
    /\ Len(result.items) = 3
    /\ \E i \in 1..3 : ~fetched[i].sent
    /\ \E i \in 1..3 : result.items[i].tweet_text.some

\* C6: no slot stays free while a request is queued; when fetch returns
\* every capture's archive_url has been requested exactly once; and, every
\* page request completing, the enrichment ends and fetch returns.
C6_EachRequestedOnceAndReturns ==
    /\ [](pc = "enrich" =>
            (Cardinality(in_progress) = 3 \/ Len(requested) = Len(items)))
    /\ [](Returned =>
            requested = [i \in 1..Len(result.items) |-> result.items[i].archive_url])
    /\ (pc = "enrich") ~> Returned

C6_Witness ==
    /\ pc = "enrich"
    /\ 1 \in in_progress
    /\ 4 \in in_progress
    /\ Len(texts) = 1

\* The data rows of the response (the rows after row 0) that pass the filter.
PassingRows ==
    SelectSeq(IF Len(index_body.rows) = 0 THEN <<>> ELSE Tail(index_body.rows),
              LAMBDA row : row_accepted(row))

\* C7: the captures returned are the first max_items data rows that pass the
\* filter, in the order of the response; so at most max_items are returned.
C7_FirstMaxItemsInOrder ==
    Returned =>
        LET passing == PassingRows
        IN  /\ Len(result.items) <= max_items
            /\ Len(result.items)
                  = (IF Len(passing) < max_items THEN Len(passing) ELSE max_items)
            /\ \A i \in 1..Len(result.items) :
                  /\ result.items[i].timestamp = passing[i][1]
                  /\ result.items[i].original_url = passing[i][2]

C7_Witness ==
    /\ Returned
    /\ max_items = 2
    /\ Len(PassingRows) = 3
    /\ ~row_accepted(index_body.rows[2])

\* C10: row 0 of the response never becomes a capture, whatever it holds,
\* and a response of row 0 alone yields Ok with no capture and no request.
C10_HeaderRowSkipped ==
    (index_body.kind = "rows" /\ Len(index_body.rows) >= 1) =>
        /\ \A i \in 1..Len(items) : items[i].original_url # index_body.rows[1][2]
        /\ \A i \in 1..Len(requested) :
              ~Contains(requested[i], index_body.rows[1][2])
        /\ Len(index_body.rows) = 1 =>
              (pc = "done" /\ result = Ok(<<>>) /\ requested = <<>>)

C10_Witness ==
    /\ Returned
    /\ Len(index_body.rows) = 1
    /\ row_accepted(index_body.rows[1])

(***************************************************************************)
(* The row filter on its own: one row between two rows that pass.          *)
(***************************************************************************)

\* Largest number of pieces an original URL is made of.
MaxPieces == 3

UrlPieces == {"/status/", "/status", "/", "1", "a", "?", "%", "#", "\""}

RECURSIVE UrlsOf(_)
UrlsOf(n) ==
    IF n = 0 THEN {""}
    ELSE UrlsOf(n - 1) \cup {u \o piece : u \in UrlsOf(n - 1), piece \in UrlPieces}

\* The rows tried: every URL in a row of three columns, and rows of zero to
\* four columns, with a timestamp that can or cannot be formatted.
FilterRows ==
    {<<"2023", u, "200">> : u \in UrlsOf(MaxPieces)}
    \cup {<<>>, <<"2023">>, <<"2023061é">>}
    \cup {SubSeq(<<ts, u, "200", "extra">>, 1, n) :
            ts \in {"20230615", "2023061é"},
            u \in {"x.com/u/status/1", "x.com/u/status/", "x.com/u",
                   "x.com/u/status/1/status/a", "x.com/u/status/a/status/1",
                   "x.com/u/status//status/1", "x.com/u/status/1a?b"},
            n \in 2..4}

RowBefore == <<"20230615143022", "https://twitter.com/testuser/status/123", "200">>

RowAfter == <<"2023", "x.com/c/status/7?s=20", "200", "extra">>

InitFilter ==
    /\ pc = "idle"
    /\ max_items = 3
    /\ index_body = NoBody
    /\ items = <<>>
    /\ next_url = 1
    /\ in_progress = {}
    /\ texts = <<>>
    /\ fetched = <<>>
    /\ requested = <<>>
    /\ result = Pending
    /\ fn_in \in FilterRows
    /\ fn_out = NotApplied
    /\ widget = archive_new
    /\ call = NoCall
    /\ twitter = twitter_new
    /\ clock = clock_new

\* Lines 56-104 on the response <<header, RowBefore, fn_in, RowAfter>>.
ApplyFilter ==
    /\ ~fn_out.applied
    /\ fn_out' = [applied |-> TRUE,
                  accepted |-> row_accepted(fn_in),
                  got |-> filter_take(skip_header(<<HeaderRow, RowBefore, fn_in,
                                                    RowAfter>>), max_items)]
    /\ UNCHANGED <<notFnVars, fn_in>>

SpecFilter == InitFilter /\ [][ApplyFilter]_vars

\* The text that follows the first "/status/" of a URL (none when the URL
\* has no marker), and that text cut at the first of ? % # ".
MarkerAt(url, p) == p + 7 <= Len(url) /\ SubSeq(url, p, p + 7) = "/status/"

TextAfterMarker(url) ==
    IF \E p \in 1..Len(url) : MarkerAt(url, p)
    THEN LET first == CHOOSE p \in 1..Len(url) :
                         MarkerAt(url, p) /\ \A q \in 1..(p - 1) : ~MarkerAt(url, q)
         IN  Some(SubSeq(url, first + 8, Len(url)))
    ELSE None

RECURSIVE CutAtTerminator(_)
CutAtTerminator(s) ==
    IF Len(s) = 0 \/ CharAt(s, 1) \in {"?", "%", "#", "\""} THEN ""
    ELSE CharAt(s, 1) \o CutAtTerminator(Tail(s))

AllDigits(s) == \A i \in 1..Len(s) : CharAt(s, i) \in {"0", "1", "2", "3", "4", "5", "6", "7", "8", "9"}

\* C8: a row is accepted exactly when it has at least 3 columns, its URL
\* holds "/status/", and the text after the first marker, cut at the first
\* of ? % # ", is non-empty and starts with a digit; a row that is not
\* accepted is dropped without a panic and the rows around it are kept.
C8_FilterAcceptsExactly ==
    fn_out.applied =>
        LET claimed ==
                /\ Len(fn_in) >= 3
                /\ TextAfterMarker(fn_in[2]).some
                /\ CutAtTerminator(TextAfterMarker(fn_in[2]).val) # ""
                /\ SubSeq(CutAtTerminator(TextAfterMarker(fn_in[2]).val), 1, 1)
                      \in {"0", "1", "2", "3", "4", "5", "6", "7", "8", "9"}
        IN  /\ fn_out.accepted <=> claimed
            /\ ~claimed =>
                  /\ ~fn_out.got.panic
                  /\ fn_out.got.items = <<new_item(RowBefore), new_item(RowAfter)>>
            /\ (claimed /\ ~fn_out.got.panic) =>
                  fn_out.got.items
                      = <<new_item(RowBefore), new_item(fn_in), new_item(RowAfter)>>

C8_Witness ==
    /\ fn_out.applied
    /\ fn_out.accepted
    /\ fn_in[2] = "x.com/u/status/1/status/a"
    /\ fn_out.got.items[2].original_url = fn_in[2]

\* C9: every capture returned has an original_url whose identifier, the text
\* after the first "/status/" cut at the first of ? % # ", is made of
\* decimal digits only.
C9_IdPurelyNumeric ==
    Returned =>
        \A i \in 1..Len(result.items) :
            /\ TextAfterMarker(result.items[i].original_url).some
            /\ AllDigits(CutAtTerminator(
                   TextAfterMarker(result.items[i].original_url).val))

\* C12: every accepted row produces a capture whose timestamp and
\* original_url are the row's, whose archive_url is
\* "https://web.archive.org/web/" + timestamp + "if_/" + original_url, whose
\* date_display and author are format_wayback_timestamp(timestamp) and
\* extract_author_from_url(original_url), and whose tweet_text is None.
C12_AcceptedRowBecomesCapture ==
    (fn_out.applied /\ fn_out.accepted) =>
        /\ ~fn_out.got.panic
        /\ Len(fn_out.got.items) = 3
        /\ fn_out.got.items[2] =
              [timestamp |-> fn_in[1],
               original_url |-> fn_in[2],
               archive_url |-> "https://web.archive.org/web/" \o fn_in[1]
                                  \o "if_/" \o fn_in[2],
               tweet_text |-> None,
               author |-> extract_author_from_url(fn_in[2]),
               date_display |-> format_wayback_timestamp(fn_in[1])]
        /\ fn_out.got.items[1].date_display = "2023-06-15 14:30"
        /\ fn_out.got.items[1].author = Some("@testuser")

(***************************************************************************)
(* The pure functions on their own: fn_in names a function and its         *)
(* argument, fn_out is what the function returns for it.                   *)
(***************************************************************************)

\* Largest number of pieces an archive query is made of.
MaxQueryPieces == 3

QueryPieces == {"x.com/u", "*", "/", "/status", "/status/", "1"}

RECURSIVE QueriesOf(_)
QueriesOf(n) ==
    IF n = 0 THEN {""}
    ELSE QueriesOf(n - 1) \cup {q \o piece : q \in QueriesOf(n - 1), piece \in QueryPieces}

\* What the selectors of the cascade match in an archived page.
OgElements ==
    {<<>>, <<None>>, <<Some(" \t\f")>>, <<Some("  Tweet via og:description\n")>>,
     <<Some(""), Some("second og element")>>}

TwElements == {<<>>, <<Some("")>>, <<Some("Tweet via twitter:description ")>>}

DescElements ==
    {<<>>,
     <<Some(" ")>>,
     <<Some("A real description of a tweet")>>,
     <<Some("exactly twenty chars")>>,
     <<Some("exactly 21 characters")>>,
     <<Some("ééééééééééé")>>,
     <<Some("From breaking news and entertainment to sports")>>,
     <<Some("The latest posts from @user and friends")>>,
     <<Some("POST WITH a picture of the sunset")>>,
     <<Some("She wrote a post with pictures of it")>>,
     <<Some("See what people say on Twitter today")>>,
     <<Some("We were all waiting on X to answer")>>}

TweetTextElements == {<<>>, <<"  ">>, <<" Old tweet text ", "another paragraph">>}

JsonLdBlocks ==
    {<<>>,
     <<InvalidJson>>,
     <<ValidJson(JsonObject(Some(JsonString(" JSON-LD body "))))>>}

Documents ==
    {Document(og, tw, desc, p, ld) :
        og \in OgElements, tw \in TwElements, desc \in DescElements,
        p \in TweetTextElements, ld \in JsonLdBlocks}

\* Largest number of JSON-LD blocks in a page.
MaxScripts == 3

\* The blocks tried: not JSON, values other than an object, objects without
\* a usable articleBody, objects with one, and arrays of such values.
JsonLdScripts ==
    {InvalidJson,
     ValidJson(JsonOther),
     ValidJson(JsonObject(None)),
     ValidJson(JsonObject(Some(JsonOther))),
     ValidJson(JsonObject(Some(JsonString(" \n")))),
     ValidJson(JsonObject(Some(JsonString(" Body of object A ")))),
     ValidJson(JsonArray(<<>>)),
     ValidJson(JsonArray(<<JsonOther, JsonObject(None),
                           JsonObject(Some(JsonString("Body of element B"))),
                           JsonObject(Some(JsonString("Body of element C")))>>)),
     ValidJson(JsonArray(<<JsonArray(<<JsonObject(Some(JsonString("nested")))>>)>>))}

RECURSIVE ScriptsOf(_)
ScriptsOf(n) ==
    IF n = 0 THEN {<<>>}
    ELSE ScriptsOf(n - 1)
         \cup {Append(scripts, script) : scripts \in ScriptsOf(n - 1), script \in JsonLdScripts}

\* Largest length of a timestamp.
MaxTsLen == 14

TimestampDigits == {"2023061514302299", "1999123123595900"}

\* ts with the character at position i (if any) replaced by c.
WithCharAt(ts, i, c) ==
    IF i \in 1..Len(ts)
    THEN SubSeq(ts, 1, i - 1) \o c \o SubSeq(ts, i + 1, Len(ts)) ELSE ts

\* The timestamps tried: digit strings of every length up to MaxTsLen that
\* differ from one another in one position, and strings that are not digit
\* strings.
Timestamps ==
    {SubSeq(WithCharAt(ts, i, "0"), 1, n) :
        ts \in TimestampDigits, i \in 0..MaxTsLen, n \in 0..MaxTsLen}
    \cup {"2023061é", "é", "2023-06-15T14:30"}

\* The URLs tried: scheme, www prefix, host, handle and rest of the path.
AuthorUrls ==
    {scheme \o www \o host \o handle \o rest :
        scheme \in {"", "https://", "http://", "ftp://", "https://http://"},
        www \in {"", "www.", "www.www.", "WWW."},
        host \in {"twitter.com/", "x.com/", "twitter.com", "mobile.twitter.com/",
                  "nitter.net/", "X.com/", ""},
        handle \in {"", "testuser", "x.com"},
        rest \in {"", "/", "/status/123", "//status/1"}}

\* Largest number of lines of a search output.
MaxLines == 4

\* The lines a search output is made of; the last line may lack its line
\* feed.
OutputLines ==
    {"@a: hi", "@b:", "more text", "@c yo", "URL: u/1", " http://t.co ", "---", "\f\r"}

RECURSIVE OutputsOf(_)
OutputsOf(n) ==
    IF n = 0 THEN {""}
    ELSE OutputsOf(n - 1)
         \cup {out \o line \o "\n" : out \in OutputsOf(n - 1), line \in OutputLines}

SearchOutputs ==
    OutputsOf(MaxLines)
    \cup {"@user1: This is a long tweet\nthat spans multiple lines\nURL: https://twitter.com/user1/status/123",
           "@user1: This is a tweet\nURL: https://twitter.com/user1/status/123\n---\n@user2: Another tweet\nURL: https://twitter.com/user2/status/456"}

Call(f, arg) == [f |-> f, arg |-> arg]

Returns(v) == [applied |-> TRUE, val |-> v]

InitPure ==
    /\ pc = "idle"
    /\ max_items = 0
    /\ index_body = NoBody
    /\ items = <<>>
    /\ next_url = 1
    /\ in_progress = {}
    /\ texts = <<>>
    /\ fetched = <<>>
    /\ requested = <<>>
    /\ result = Pending
    /\ fn_out = NotApplied
    /\ widget = archive_new
    /\ call = NoCall
    /\ twitter = twitter_new
    /\ clock = clock_new
    /\ \/ fn_in \in {Call("build_query", q) : q \in QueriesOf(MaxQueryPieces)}
       \/ fn_in \in {Call("extract_tweet_text", d) : d \in Documents}
       \/ fn_in \in {Call("format_wayback_timestamp", ts) : ts \in Timestamps}
       \/ fn_in \in {Call("extract_author_from_url", url) : url \in AuthorUrls}
       \/ fn_in \in {Call("extract_json_ld_article_body", scripts) :
                        scripts \in ScriptsOf(MaxScripts)}

ApplyBuildQuery ==
    /\ fn_in.f = "build_query"
    /\ ~fn_out.applied
    /\ fn_out' = Returns(build_query(fn_in.arg))
    /\ UNCHANGED <<notFnVars, fn_in>>

ApplyExtractTweetText ==
    /\ fn_in.f = "extract_tweet_text"
    /\ ~fn_out.applied
    /\ fn_out' = Returns(extract_tweet_text(fn_in.arg))
    /\ UNCHANGED <<notFnVars, fn_in>>

ApplyExtractJsonLd ==
    /\ fn_in.f = "extract_json_ld_article_body"
    /\ ~fn_out.applied
    /\ fn_out' = Returns(extract_json_ld_article_body(fn_in.arg))
    /\ UNCHANGED <<notFnVars, fn_in>>

\* A call that panics returns nothing.
ApplyFormatTimestamp ==
    /\ fn_in.f = "format_wayback_timestamp"
    /\ ~fn_out.applied
    /\ fn_out' = [applied |-> TRUE,
                  panic |-> format_wayback_timestamp_panics(fn_in.arg),
                  val |-> IF format_wayback_timestamp_panics(fn_in.arg) THEN ""
                          ELSE format_wayback_timestamp(fn_in.arg)]
    /\ UNCHANGED <<notFnVars, fn_in>>

ApplyExtractAuthor ==
    /\ fn_in.f = "extract_author_from_url"
    /\ ~fn_out.applied
    /\ fn_out' = Returns(extract_author_from_url(fn_in.arg))
    /\ UNCHANGED <<notFnVars, fn_in>>

NextPure ==
    \/ ApplyBuildQuery
    \/ ApplyExtractTweetText
    \/ ApplyExtractJsonLd
    \/ ApplyFormatTimestamp
    \/ ApplyExtractAuthor

SpecPure == InitPure /\ [][NextPure]_vars

\* parse_search_results applied to one search output.
InitParse ==
    /\ pc = "idle"
    /\ max_items = 0
    /\ index_body = NoBody
    /\ items = <<>>
    /\ next_url = 1
    /\ in_progress = {}
    /\ texts = <<>>
    /\ fetched = <<>>
    /\ requested = <<>>
    /\ result = Pending
    /\ fn_out = NotApplied
    /\ widget = archive_new
    /\ call = NoCall
    /\ twitter = twitter_new
    /\ clock = clock_new
    /\ fn_in \in {Call("parse_search_results", output) : output \in SearchOutputs}

ApplyParseSearchResults ==
    /\ fn_in.f = "parse_search_results"
    /\ ~fn_out.applied
    /\ fn_out' = Returns(parse_search_results(fn_in.arg))
    /\ UNCHANGED <<notFnVars, fn_in>>

NextParse == ApplyParseSearchResults

SpecParse == InitParse /\ [][NextParse]_vars

Applied(f) == fn_out.applied /\ fn_in.f = f

\* A string without its trailing characters that belong to chars.
RECURSIVE WithoutTrailing(_, _)
WithoutTrailing(s, chars) ==
    IF Len(s) > 0 /\ SubSeq(s, Len(s), Len(s)) \in chars
    THEN WithoutTrailing(SubSeq(s, 1, Len(s) - 1), chars) ELSE s

\* C11: a query that holds "/status" is used verbatim; any other query
\* becomes base + "/status/*", base being the query without all of its
\* trailing '*' and '/' characters, so that base ends in neither.
C11_QueryNormalised ==
    Applied("build_query") =>
        IF \E i \in 1..Len(fn_in.arg) :
               i + 6 <= Len(fn_in.arg) /\ SubSeq(fn_in.arg, i, i + 6) = "/status"
        THEN fn_out.val = fn_in.arg
        ELSE LET base == WithoutTrailing(fn_in.arg, {"*", "/"})
             IN  /\ fn_out.val = base \o "/status/*"
                 /\ Len(fn_out.val) >= 9
                 /\ LET used == SubSeq(fn_out.val, 1, Len(fn_out.val) - 9)
                    IN  Len(used) > 0 =>
                            SubSeq(used, Len(used), Len(used)) \notin {"*", "/"}

\* The content attribute of the first element matched, "" when there is none.
FirstContent(elements) ==
    IF Len(elements) > 0 /\ elements[1].some THEN elements[1].val ELSE ""

\* What strategy k of the cascade finds in a page, trimmed; "" when it finds
\* nothing.
StrategyValue(document, k) ==
    CASE k = 1 -> trim(FirstContent(document.og))
      [] k = 2 -> trim(FirstContent(document.tw))
      [] k = 3 -> IF description_kept(trim(FirstContent(document.desc)))
                  THEN trim(FirstContent(document.desc)) ELSE ""
      [] k = 4 -> IF Len(document.p_tweet_text) > 0
                  THEN trim(document.p_tweet_text[1]) ELSE ""
      [] k = 5 -> UnwrapOr(extract_json_ld_article_body(document.json_ld), "")

Matching(document) == {k \in 1..5 : StrategyValue(document, k) # ""}

\* C13: extract_tweet_text returns the value of the first strategy, in the
\* order og:description, twitter:description, filtered description,
\* p.tweet-text, JSON-LD articleBody, whose trimmed value is not empty; the
\* text returned is trimmed and not empty; None exactly when none matches.
C13_FirstNonEmptyStrategyWins ==
    Applied("extract_tweet_text") =>
        LET hits == Matching(fn_in.arg)
        IN  /\ fn_out.val.some <=> hits # {}
            /\ fn_out.val.some =>
                  /\ \E k \in hits :
                        /\ \A j \in hits : k <= j
                        /\ fn_out.val.val = StrategyValue(fn_in.arg, k)
                  /\ Len(fn_out.val.val) > 0
                  /\ SubSeq(fn_out.val.val, 1, 1) \notin Whitespace
                  /\ SubSeq(fn_out.val.val, Len(fn_out.val.val), Len(fn_out.val.val))
                        \notin Whitespace

\* An empty og:description falls through to twitter:description, which wins
\* over the p.tweet-text element and the JSON-LD block of the same page.
C13_Witness ==
    /\ Applied("extract_tweet_text")
    /\ fn_in.arg.og = <<Some(" \t\f")>>
    /\ StrategyValue(fn_in.arg, 4) # ""
    /\ StrategyValue(fn_in.arg, 5) # ""
    /\ fn_out.val = Some("Tweet via twitter:description")

\* The boilerplate phrases a description is tested for.
BoilerplateStarts == {"from breaking news", "the latest posts", "post with"}

BoilerplateParts == {"on twitter", "on x"}

\* s holds part somewhere.
Holds(s, part) ==
    \E i \in 1..Len(s) :
        i + Len(part) - 1 <= Len(s) /\ SubSeq(s, i, i + Len(part) - 1) = part

\* C14: when the meta tags before it give nothing, a description is returned
\* only if it is longer than 20 characters and its lower-cased form neither
\* starts with nor contains a boilerplate phrase; a rejected description
\* leaves the result to p.tweet-text, then JSON-LD, then None.
C14_DescriptionFilter ==
    (/\ Applied("extract_tweet_text")
     /\ StrategyValue(fn_in.arg, 1) = ""
     /\ StrategyValue(fn_in.arg, 2) = ""
     /\ trim(FirstContent(fn_in.arg.desc)) # "") =>
        LET value == trim(FirstContent(fn_in.arg.desc))
            lower == to_lowercase(value)
            kept ==
                /\ Len(value) > 20
                /\ \A b \in BoilerplateStarts :
                      ~(Len(b) <= Len(lower) /\ SubSeq(lower, 1, Len(b)) = b)
                /\ \A b \in BoilerplateParts : ~Holds(lower, b)
        IN  IF kept THEN fn_out.val = Some(value)
            ELSE fn_out.val =
                    (IF StrategyValue(fn_in.arg, 4) # ""
                     THEN Some(StrategyValue(fn_in.arg, 4))
                     ELSE IF StrategyValue(fn_in.arg, 5) # ""
                     THEN Some(StrategyValue(fn_in.arg, 5))
                     ELSE None)

\* The values a block offers for articleBody, in reading order: the value
\* itself when it is an object, its elements when it is an array, nothing
\* when the block is not valid JSON.
Candidates(script) ==
    IF ~script.valid THEN <<>>
    ELSE IF script.value.t = "object" THEN <<script.value>>
    ELSE IF script.value.t = "array" THEN script.value.items
    ELSE <<>>

RECURSIVE AllCandidates(_)
AllCandidates(scripts) ==
    IF Len(scripts) = 0 THEN <<>>
    ELSE Candidates(Head(scripts)) \o AllCandidates(Tail(scripts))

\* The trimmed articleBody string of an object, "" when it has none.
ArticleBodyOf(value) ==
    IF value.t = "object" /\ value.body.some /\ value.body.val.t = "string"
    THEN trim(value.body.val.s) ELSE ""

\* C15: the JSON-LD strategy returns the first non-empty articleBody among
\* the objects of all blocks in document order, a block being one object or
\* an array of objects; blocks that are not valid JSON or carry no non-empty
\* articleBody are skipped, and with no articleBody at all the result is None.
C15_JsonLdSkipsBadBlocks ==
    Applied("extract_json_ld_article_body") =>
        LET found == SelectSeq(AllCandidates(fn_in.arg),
                               LAMBDA value : ArticleBodyOf(value) # "")
        IN  fn_out.val = (IF Len(found) = 0 THEN None
                          ELSE Some(ArticleBodyOf(found[1])))

\* A malformed block and a block without articleBody come before an array
\* whose third element carries the body.
C15_Witness ==
    /\ Applied("extract_json_ld_article_body")
    /\ Len(fn_in.arg) = 3
    /\ ~fn_in.arg[1].valid
    /\ fn_in.arg[2] = ValidJson(JsonObject(None))
    /\ fn_in.arg[3].value.t = "array"
    /\ fn_out.val = Some("Body of element B")

\* C16: on a digit string format_wayback_timestamp never panics; a string
\* shorter than 8 is returned unchanged, one of length 8 to 11 gives
\* YYYY-MM-DD from its first 8 characters, one of length 12 or more gives
\* YYYY-MM-DD HH:MM from its first 12 characters, whatever follows them.
C16_TimestampFormat ==
    (Applied("format_wayback_timestamp") /\ AllDigits(fn_in.arg)) =>
        LET ts == fn_in.arg
            date == SubSeq(ts, 1, 4) \o "-" \o SubSeq(ts, 5, 6) \o "-" \o SubSeq(ts, 7, 8)
        IN  /\ ~fn_out.panic
            /\ Len(ts) < 8 => fn_out.val = ts
            /\ Len(ts) \in 8..11 => fn_out.val = date /\ Len(fn_out.val) = 10
            /\ Len(ts) >= 12 =>
                  /\ fn_out.val = date \o " " \o SubSeq(ts, 9, 10) \o ":" \o SubSeq(ts, 11, 12)
                  /\ Len(fn_out.val) = 16
                  /\ fn_out.val = format_wayback_timestamp(SubSeq(ts, 1, 12))

\* A timestamp with seconds: the seconds are not shown.
C16_Witness ==
    /\ Applied("format_wayback_timestamp")
    /\ fn_in.arg = "20230615143022"
    /\ fn_out.val = "2023-06-15 14:30"

\* s without the prefix p when it starts with p, s itself otherwise.
Without(s, p) ==
    IF Len(p) <= Len(s) /\ SubSeq(s, 1, Len(p)) = p
    THEN SubSeq(s, Len(p) + 1, Len(s)) ELSE s

\* The text of s up to its first '/'.
RECURSIVE UpToSlash(_)
UpToSlash(s) ==
    IF Len(s) = 0 \/ SubSeq(s, 1, 1) = "/" THEN ""
    ELSE SubSeq(s, 1, 1) \o UpToSlash(SubSeq(s, 2, Len(s)))

\* C17: extract_author_from_url returns Some("@" + h) exactly when the URL,
\* without its https:// or http:// scheme and then without a www. prefix,
\* starts with "twitter.com/" or "x.com/" and h, the text up to the next '/',
\* is not empty; otherwise it returns None.
C17_AuthorFromUrl ==
    Applied("extract_author_from_url") =>
        LET no_scheme == IF Without(fn_in.arg, "https://") # fn_in.arg
                         THEN Without(fn_in.arg, "https://")
                         ELSE Without(fn_in.arg, "http://")
            path == Without(no_scheme, "www.")
            on_host == \E host \in {"twitter.com/", "x.com/"} : Without(path, host) # path
            h == UpToSlash(IF Without(path, "twitter.com/") # path
                           THEN Without(path, "twitter.com/")
                           ELSE Without(path, "x.com/"))
        IN  IF on_host /\ h # "" THEN fn_out.val = Some("@" \o h)
            ELSE fn_out.val = None

\* Scheme and www. prefix are both removed before the host is matched.
C17_Witness ==
    /\ Applied("extract_author_from_url")
    /\ fn_in.arg = "http://www.x.com/testuser/status/123"
    /\ fn_out.val = Some("@testuser")

(***************************************************************************)
(* TwitterArchiveWidget as a state machine: the application delivers feed  *)
(* data and key presses in any order.                                      *)
(***************************************************************************)

\* Largest number of items a fetch delivers to the widget.
MaxWidgetItems == 3

\* The items delivered: with and without text, with and without author.
WidgetItemPool ==
    {[new_item(CdxRows[1]) EXCEPT !.tweet_text = Some("Hello world")],
     new_item(CdxRows[7])}

RECURSIVE ItemListsOf(_)
ItemListsOf(n) ==
    IF n = 0 THEN {<<>>}
    ELSE ItemListsOf(n - 1)
         \cup {Append(its, it) : its \in ItemListsOf(n - 1), it \in WidgetItemPool}

ErrorMessages == {"Network error", "Failed to parse CDX JSON response"}

FeedDatas ==
    {TwitterArchive(its) : its \in ItemListsOf(MaxWidgetItems)}
    \cup {Error(e) : e \in ErrorMessages}
    \cup {Loading, OtherFeedData}

InitWidget ==
    /\ pc = "idle"
    /\ max_items = 0
    /\ index_body = NoBody
    /\ items = <<>>
    /\ next_url = 1
    /\ in_progress = {}
    /\ texts = <<>>
    /\ fetched = <<>>
    /\ requested = <<>>
    /\ result = Pending
    /\ fn_in = <<>>
    /\ fn_out = NotApplied
    /\ widget = archive_new
    /\ call = NoCall
    /\ twitter = twitter_new
    /\ clock = clock_new

UpdateData(data) ==
    /\ widget' = archive_update_data(widget, data)
    /\ call' = Called("update_data", data)
    /\ UNCHANGED notWidgetVars

ScrollUp ==
    /\ widget' = archive_scroll_up(widget)
    /\ call' = Called("scroll_up", Loading)
    /\ UNCHANGED notWidgetVars

ScrollDown ==
    /\ widget' = archive_scroll_down(widget)
    /\ call' = Called("scroll_down", Loading)
    /\ UNCHANGED notWidgetVars

SetSelected(selected) ==
    /\ widget' = archive_set_selected(widget, selected)
    /\ call' = Called("set_selected", Loading)
    /\ UNCHANGED notWidgetVars

GetSelectedItem ==
    /\ call' = Asked("get_selected_item", archive_get_selected_item(widget))
    /\ UNCHANGED <<widget, notWidgetVars>>

NextWidget ==
    \/ \E data \in FeedDatas : UpdateData(data)
    \/ ScrollUp
    \/ ScrollDown
    \/ \E selected \in BOOLEAN : SetSelected(selected)
    \/ GetSelectedItem

SpecWidget == InitWidget /\ [][NextWidget]_vars

\* C18: a new widget is loading with no items and no error; after
\* update_data(TwitterArchive(items)) it is not loading, holds exactly those
\* items and has no error; after update_data(Error(e)) it is not loading and
\* its error is Some(e); after update_data(Loading) it is loading.
C18_UpdateDataSetsState ==
    /\ call.op = "new" =>
          (widget.loading /\ widget.items = <<>> /\ widget.error = None)
    /\ (call.op = "update_data" /\ call.data.kind = "TwitterArchive") =>
          (~widget.loading /\ widget.items = call.data.items /\ widget.error = None)
    /\ (call.op = "update_data" /\ call.data.kind = "Error") =>
          (~widget.loading /\ widget.error = Some(call.data.message))
    /\ (call.op = "update_data" /\ call.data.kind = "Loading") => widget.loading

\* Items arrive while the cursor is already on the second row, so the widget
\* held an error or other items before.
C18_Witness ==
    /\ call.op = "update_data"
    /\ call.data.kind = "TwitterArchive"
    /\ Len(widget.items) = 2
    /\ widget.scroll_state = Some(1)
    /\ ~widget.loading

\* C19: right after update_data(Error(e)) the view is the one line
\* "Error: e", also when items are held; and while an error is held the view
\* becomes the item list only by update_data(TwitterArchive(items)) with a
\* list that is not empty.
C19_ErrorViewUntilNewItems ==
    [][/\ (call'.op = "update_data" /\ call'.data.kind = "Error") =>
             /\ archive_render(widget').view = "error"
             /\ archive_render(widget').lines = <<"Error: " \o call'.data.message>>
       /\ (widget.error.some /\ archive_render(widget').view = "list") =>
             /\ call'.op = "update_data"
             /\ call'.data.kind = "TwitterArchive"
             /\ Len(call'.data.items) > 0]_vars

\* An error arrived while items of an earlier fetch are held.
C19_Witness ==
    /\ call.op = "update_data"
    /\ call.data.kind = "Error"
    /\ Len(widget.items) = 2
    /\ archive_render(widget).view = "error"

\* C20: scroll_down adds one to the cursor when it is below the index of the
\* last item and scroll_up takes one off when it is above 0; otherwise they
\* change nothing; neither touches the items, so a cursor inside 0..n-1 of a
\* list of n >= 1 items stays inside it.
C20_ScrollStaysInBounds ==
    [][LET n == Len(widget.items)
           cursor == widget.scroll_state.val
       IN  /\ call'.op = "scroll_down" =>
                 widget' = (IF cursor + 1 < n
                            THEN [widget EXCEPT !.scroll_state = Some(cursor + 1)]
                            ELSE widget)
           /\ call'.op = "scroll_up" =>
                 widget' = (IF cursor > 0
                            THEN [widget EXCEPT !.scroll_state = Some(cursor - 1)]
                            ELSE widget)
           /\ (call'.op \in {"scroll_down", "scroll_up"} /\ n >= 1 /\ cursor \in 0..(n - 1)) =>
                 /\ Len(widget'.items) = n
                 /\ widget'.scroll_state.some
                 /\ widget'.scroll_state.val \in 0..(n - 1)]_vars

\* scroll_down on the last of three items.
C20_Witness ==
    /\ call.op = "scroll_down"
    /\ Len(widget.items) = 3
    /\ widget.scroll_state = Some(2)

\* C21: get_selected_item returns None when no item exists at the cursor,
\* as with an empty list; otherwise it returns the item at the cursor with
\* title = tweet_text or else original_url, url = archive_url, and source =
\* author or else "Wayback Machine".
C21_SelectedItemAtCursor ==
    call.op = "get_selected_item" =>
        LET cursor == widget.scroll_state.val
        IN  IF cursor + 1 > Len(widget.items) THEN call.ret = None
            ELSE LET item == widget.items[cursor + 1]
                 IN  /\ call.ret.some
                     /\ call.ret.val.title
                           = (IF item.tweet_text.some THEN item.tweet_text.val
                              ELSE item.original_url)
                     /\ call.ret.val.url = Some(item.archive_url)
                     /\ call.ret.val.source
                           = (IF item.author.some THEN item.author.val
                              ELSE "Wayback Machine")

\* The second of two different items is selected; it has neither text nor
\* author.
C21_Witness ==
    /\ call.op = "get_selected_item"
    /\ widget.scroll_state = Some(1)
    /\ Len(widget.items) = 2
    /\ widget.items[1] # widget.items[2]
    /\ call.ret.some
    /\ call.ret.val.title = "https://example.com/d/status/9%22"
    /\ call.ret.val.source = "Wayback Machine"

\* C23: after any sequence of update_data, scroll_up and scroll_down,
\* whenever the item list is not empty the cursor is a valid index into it
\* and get_selected_item returns an item.
C23_CursorValidWhenItemsHeld ==
    Len(widget.items) > 0 =>
        /\ widget.scroll_state.some
        /\ widget.scroll_state.val < Len(widget.items)
        /\ archive_get_selected_item(widget).some

\* C24: update_data never changes the cursor; Error leaves the items alone,
\* Loading leaves items and error alone, a variant of another feed only
\* clears loading; and an error that is set stays set over every call but
\* update_data(TwitterArchive(..)).
C24_UpdateDataFrame ==
    [][/\ call'.op = "update_data" =>
             /\ widget'.scroll_state = widget.scroll_state
             /\ call'.data.kind = "Error" => widget'.items = widget.items
             /\ call'.data.kind = "Loading" =>
                   (widget'.items = widget.items /\ widget'.error = widget.error)
             /\ call'.data.kind \notin {"TwitterArchive", "Error", "Loading"} =>
                   widget' = [widget EXCEPT !.loading = FALSE]
       /\ (widget.error.some
           /\ ~(call'.op = "update_data" /\ call'.data.kind = "TwitterArchive")) =>
             widget'.error.some]_vars

\* Data of another feed arrives while an error and items are held and the
\* cursor is off the first row.
C24_Witness ==
    /\ call.op = "update_data"
    /\ call.data.kind = "HackerNews"
    /\ widget.error.some
    /\ Len(widget.items) = 2
    /\ widget.scroll_state = Some(1)
    /\ ~widget.loading

\* The trimmed lines of an output, cut into blocks at "---" and blank lines.
RECURSIVE BlocksOf(_, _)
BlocksOf(ls, block) ==
    IF Len(ls) = 0 THEN (IF Len(block) = 0 THEN <<>> ELSE <<block>>)
    ELSE IF trim(Head(ls)) \in {"---", ""}
    THEN (IF Len(block) = 0 THEN <<>> ELSE <<block>>) \o BlocksOf(Tail(ls), <<>>)
    ELSE BlocksOf(Tail(ls), Append(block, trim(Head(ls))))

IsUrlLine(line) == Len(line) >= 4 /\ SubSeq(line, 1, 4) = "URL:"

\* A block of the format: an "@author: text" line, continuation lines, and
\* at most one "URL: u" line, which is the last line.
IsTweetBlock(block) ==
    /\ SubSeq(block[1], 1, 1) = "@"
    /\ Holds(block[1], ":")
    /\ \A i \in 1..(Len(block) - 1) : ~IsUrlLine(block[i])

RECURSIVE JoinedBySpaces(_)
JoinedBySpaces(parts) ==
    IF Len(parts) = 0 THEN ""
    ELSE IF Len(parts) = 1 THEN parts[1]
    ELSE IF parts[1] = "" THEN JoinedBySpaces(Tail(parts))
    ELSE parts[1] \o " " \o JoinedBySpaces(Tail(parts))

\* The tweet a block with a URL line stands for.
TweetOfBlock(block) ==
    LET colon == CHOOSE i \in 1..Len(block[1]) :
                     /\ SubSeq(block[1], i, i) = ":"
                     /\ \A j \in 1..(i - 1) : SubSeq(block[1], j, j) # ":"
        u == trim(SubSeq(block[Len(block)], 5, Len(block[Len(block)])))
    IN  [id |-> u,
         author |-> SubSeq(block[1], 2, colon - 1),
         text |-> JoinedBySpaces(
                      <<trim(SubSeq(block[1], colon + 1, Len(block[1])))>>
                      \o SubSeq(block, 2, Len(block) - 1)),
         url |-> Some(u)]

RECURSIVE TweetsOfBlocks(_)
TweetsOfBlocks(blocks) ==
    IF Len(blocks) = 0 THEN <<>>
    ELSE (IF IsUrlLine(Head(blocks)[Len(Head(blocks))])
          THEN <<TweetOfBlock(Head(blocks))>> ELSE <<>>)
         \o TweetsOfBlocks(Tail(blocks))

\* C22: for an output made of blocks of an "@author: text" line,
\* continuation lines and a "URL: u" line, separated by "---" or blank lines,
\* parse_search_results returns one tweet per block in order, with the
\* author without '@', the first text and the continuation lines joined by
\* single spaces, url = Some(u) and id = u; a block without URL line gives
\* no tweet.
C22_OneTweetPerBlock ==
    Applied("parse_search_results") =>
        LET blocks == BlocksOf(lines(fn_in.arg), <<>>)
        IN  (\A b \in 1..Len(blocks) : IsTweetBlock(blocks[b])) =>
                fn_out.val = TweetsOfBlocks(blocks)

(***************************************************************************)
(* TwitterWidget as a state machine: key presses in any order, and every   *)
(* outcome of the bird command.                                            *)
(***************************************************************************)

\* Largest number of characters typed into a buffer.
MaxText == 2

TypedChars == {"x"}

BirdOutputs == {"", "only\n", "first\n\nsecond\nthird"}

BirdErrors == {"Bird CLI not found. Install with: bun install -g bird-cli"}

BirdResults ==
    {BirdOk(output) : output \in BirdOutputs} \cup {BirdErr(e) : e \in BirdErrors}

InitTwitter ==
    /\ pc = "idle"
    /\ max_items = 0
    /\ index_body = NoBody
    /\ items = <<>>
    /\ next_url = 1
    /\ in_progress = {}
    /\ texts = <<>>
    /\ fetched = <<>>
    /\ requested = <<>>
    /\ result = Pending
    /\ fn_in = <<>>
    /\ fn_out = NotApplied
    /\ widget = archive_new
    /\ call = NoCall
    /\ twitter = twitter_new
    /\ clock = clock_new

OpenCompose ==
    /\ twitter' = twitter_open_compose(twitter)
    /\ call' = Called("open_compose", NotRun)
    /\ UNCHANGED notTwitterVars

OpenReply ==
    /\ twitter' = twitter_open_reply(twitter)
    /\ call' = Called("open_reply", NotRun)
    /\ UNCHANGED notTwitterVars

OpenSearch ==
    /\ twitter' = twitter_open_search(twitter)
    /\ call' = Called("open_search", NotRun)
    /\ UNCHANGED notTwitterVars

CloseModal ==
    /\ twitter' = twitter_close_modal(twitter)
    /\ call' = Called("close_modal", NotRun)
    /\ UNCHANGED notTwitterVars

AddChar(c) ==
    /\ Len(twitter.compose_text) < MaxText
    /\ Len(twitter.search_query) < MaxText
    /\ twitter' = twitter_add_char(twitter, c)
    /\ call' = Called("add_char", NotRun)
    /\ UNCHANGED notTwitterVars

DeleteChar ==
    /\ twitter' = twitter_delete_char(twitter)
    /\ call' = Called("delete_char", NotRun)
    /\ UNCHANGED notTwitterVars

SubmitTweet(outcome) ==
    /\ twitter' = twitter_submit_tweet(twitter, outcome)
    /\ call' = Called("submit_tweet", IF tweet_runs(twitter) THEN outcome ELSE NotRun)
    /\ UNCHANGED notTwitterVars

SubmitReply(outcome) ==
    /\ twitter' = twitter_submit_reply(twitter, outcome)
    /\ call' = Called("submit_reply", IF reply_runs(twitter) THEN outcome ELSE NotRun)
    /\ UNCHANGED notTwitterVars

SubmitSearch(outcome) ==
    /\ twitter' = twitter_submit_search(twitter, outcome)
    /\ call' = Called("submit_search", IF search_runs(twitter) THEN outcome ELSE NotRun)
    /\ UNCHANGED notTwitterVars

LoadMentions(outcome) ==
    /\ twitter' = twitter_load_mentions(twitter, outcome)
    /\ call' = Called("load_mentions", outcome)
    /\ UNCHANGED notTwitterVars

TwitterScrollUp ==
    /\ twitter' = twitter_scroll_up(twitter)
    /\ call' = Called("scroll_up", NotRun)
    /\ UNCHANGED notTwitterVars

TwitterScrollDown ==
    /\ twitter' = twitter_scroll_down(twitter)
    /\ call' = Called("scroll_down", NotRun)
    /\ UNCHANGED notTwitterVars

NextTwitter ==
    \/ OpenCompose
    \/ OpenReply
    \/ OpenSearch
    \/ CloseModal
    \/ \E c \in TypedChars : AddChar(c)
    \/ DeleteChar
    \/ \E outcome \in BirdResults : SubmitTweet(outcome)
    \/ \E outcome \in BirdResults : SubmitReply(outcome)
    \/ \E outcome \in BirdResults : SubmitSearch(outcome)
    \/ \E outcome \in BirdResults : LoadMentions(outcome)
    \/ TwitterScrollUp
    \/ TwitterScrollDown

SpecTwitter == InitTwitter /\ [][NextTwitter]_vars

\* C25: whenever the mode is Normal both buffers are empty; add_char and
\* delete_char change nothing in Normal mode, and open_reply changes nothing
\* while there are no tweets.
C25_NormalModeHasEmptyBuffers ==
    /\ [](twitter.mode = "Normal" =>
             (twitter.compose_text = "" /\ twitter.search_query = ""))
    /\ [][/\ (call'.op \in {"add_char", "delete_char"} /\ twitter.mode = "Normal") =>
                twitter' = twitter
          /\ (call'.op = "open_reply" /\ Len(twitter.tweets) = 0) =>
                twitter' = twitter]_vars

\* A search that succeeded after a tweet was being composed: back in Normal
\* mode with results.
C25_Witness ==
    /\ call.op = "submit_search"
    /\ call.data.ok
    /\ twitter.mode = "Normal"
    /\ Len(twitter.tweets) = 3
    /\ twitter.compose_text = ""
    /\ twitter.status_message.some

\* C26: submit_tweet, submit_reply and submit_search change nothing when
\* their buffer is empty; when the command fails only status_message
\* changes, to the error; when it succeeds the mode is Normal and both
\* buffers are empty.
C26_SubmitOutcomes ==
    [][\A op \in {"submit_tweet", "submit_reply", "submit_search"} :
         call'.op = op =>
            LET buffer == IF op = "submit_search" THEN twitter.search_query
                          ELSE twitter.compose_text
            IN  /\ buffer = "" => twitter' = twitter
                /\ (call'.data.run /\ ~call'.data.ok) =>
                      \E label \in {"Error: ", "Search error: "} :
                          twitter' = [twitter EXCEPT !.status_message =
                                         Some(label \o call'.data.text)]
                /\ (call'.data.run /\ call'.data.ok) =>
                      /\ twitter'.mode = "Normal"
                      /\ twitter'.compose_text = ""
                      /\ twitter'.search_query = ""]_vars

\* A search failed: the query typed is still there, in Search mode.
C26_Witness ==
    /\ call.op = "submit_search"
    /\ call.data.run
    /\ ~call.data.ok
    /\ twitter.mode = "Search"
    /\ twitter.search_query = "xx"
    /\ twitter.status_message
          = Some("Search error: Bird CLI not found. Install with: bun install -g bird-cli")

\* C27: whenever there are tweets, selected_index is an index into them.
C27_SelectedIndexValid ==
    Len(twitter.tweets) > 0 => twitter.selected_index < Len(twitter.tweets)

(***************************************************************************)
(* The stopwatch of Clock under any sequence of toggle_stopwatch,          *)
(* reset_stopwatch and tick_stopwatch, with time passing between the       *)
(* calls.                                                                  *)
(***************************************************************************)

\* The monotonic time stops here.
MaxNow == 6

InitClock ==
    /\ pc = "idle"
    /\ max_items = 0
    /\ index_body = NoBody
    /\ items = <<>>
    /\ next_url = 1
    /\ in_progress = {}
    /\ texts = <<>>
    /\ fetched = <<>>
    /\ requested = <<>>
    /\ result = Pending
    /\ fn_in = <<>>
    /\ fn_out = NotApplied
    /\ widget = archive_new
    /\ call = NoCall
    /\ twitter = twitter_new
    /\ clock = clock_new

\* Time passes between two calls.
TimePasses ==
    /\ clock.now < MaxNow
    /\ clock' = [clock EXCEPT !.now = @ + 1]
    /\ call' = Called("time_passes", NotRun)
    /\ UNCHANGED notClockVars

ToggleStopwatch ==
    /\ clock' = toggle_stopwatch(clock)
    /\ call' = Called("toggle_stopwatch", NotRun)
    /\ UNCHANGED notClockVars

ResetStopwatch ==
    /\ clock' = reset_stopwatch(clock)
    /\ call' = Called("reset_stopwatch", NotRun)
    /\ UNCHANGED notClockVars

TickStopwatch ==
    \E later \in 0..1 :
        /\ clock.now + later <= MaxNow
        /\ clock' = tick_stopwatch(clock, later)
        /\ call' = Called("tick_stopwatch", NotRun)
        /\ UNCHANGED notClockVars

NextClock ==
    \/ TimePasses
    \/ ToggleStopwatch
    \/ ResetStopwatch
    \/ TickStopwatch

SpecClock == InitClock /\ [][NextClock]_vars

\* C28: the stopwatch is running exactly when last_tick is set; elapsed
\* never decreases except through reset_stopwatch, which leaves the
\* stopwatch not running with elapsed zero; tick_stopwatch changes nothing
\* while the stopwatch is paused.
C28_StopwatchInvariants ==
    /\ [](clock.stopwatch_state.running <=> clock.stopwatch_state.last_tick.some)
    /\ [][/\ call'.op # "reset_stopwatch" =>
               clock'.stopwatch_state.elapsed >= clock.stopwatch_state.elapsed
          /\ call'.op = "reset_stopwatch" =>
               /\ ~clock'.stopwatch_state.running
               /\ clock'.stopwatch_state.elapsed = 0
               /\ ~clock'.stopwatch_state.last_tick.some
          /\ (call'.op = "tick_stopwatch" /\ ~clock.stopwatch_state.running) =>
               clock' = clock]_vars

\* The stopwatch ran for 3 units and was paused, and a tick came while it
\* was paused: elapsed still holds the 3 units.
C28_Witness ==
    /\ call.op = "tick_stopwatch"
    /\ ~clock.stopwatch_state.running
    /\ ~clock.stopwatch_state.last_tick.some
    /\ clock.stopwatch_state.elapsed = 3
    /\ clock.now = 5

=============================================================================
